---- MODULE Spec2Model ----
(***************************************************************************)
(* randline: reservoir sampling of k lines from a stream.                  *)
(*                                                                         *)
(* The sampler (src/src/sampling.rs, reservoir_sample) is modelled one     *)
(* loop iteration per step, for a set of calls that may run interleaved.   *)
(* The command line (src/src/main.rs, main) drives call 1 from stdin.      *)
(*                                                                         *)
(* Items are opaque values (small integers).  A priority key is an f64 in  *)
(* [0,1); the model keeps only the order of the keys, so a key is an       *)
(* integer of 0..W-1, a larger integer being a larger f64.                 *)
(* The BinaryHeap is modelled by its contract: a collection of entries,    *)
(* peek() a greatest entry, pop() removes a greatest entry (any of them    *)
(* when several hold the greatest key), into_vec() the entries in an       *)
(* arbitrary order.  An entry is identified by the source position of its  *)
(* item (two entries are never the same object).                           *)
(*                                                                         *)
(* Outside the model: a k so large that BinaryHeap::with_capacity(k)       *)
(* cannot allocate, command-line arguments that are not valid Unicode      *)
(* (std::env::args() panics on them), and failed writes to stdout/stderr.  *)
(***************************************************************************)
EXTENDS Integers, Sequences, FiniteSets

VARIABLES
    k,           \* k[c]: the sample size call c was given
    items,       \* items[c]: what the source iterator of call c yields, in order
    endless,     \* endless[c]: the source repeats items[c] for ever
    io_err,      \* io_err[c]: the positions at which reading the source fails
    rng,         \* rng[c]: the keys the call's random stream produces, in order
    pc,          \* pc[c]: idle, start, fill, repl, done, panic, exit
    consumed,    \* consumed[c]: how many items next() has yielded so far
    draws,       \* draws[c]: how many keys pick_weight() has drawn so far
    reservoir,   \* reservoir[c]: the heap's entries
    max_weight,  \* max_weight[c]: the local max_weight
    sample,      \* sample[c]: the returned Vec<T>
    origin,      \* origin[c]: the source position of each returned item
    args,        \* the command line's arguments, without the program name
    main_pc,     \* main: start, sampling, exited; off when main is not run
    stdout,      \* the lines printed
    stderr,      \* the messages printed to stderr
    exit_code,   \* the process's exit code, -1 while it runs
    remaining,   \* test_distribution: the key orders still to run
    counts,      \* test_distribution: how often each item was picked
    iterations   \* test_distribution: the trials run so far

vars == <<k, items, endless, io_err, rng, pc, consumed, draws, reservoir,
          max_weight, sample, origin, args, main_pc, stdout, stderr,
          exit_code, remaining, counts, iterations>>

callVars == <<k, items, endless, io_err, rng, pc, consumed, draws, reservoir,
              max_weight, sample, origin>>
mainVars == <<args, main_pc, stdout, stderr, exit_code>>
testVars == <<remaining, counts, iterations>>

----------------------------------------------------------------------------
(* Bounds *)

\* the longest finite source
MaxN == 3
\* the largest sample size
MaxK == 3
\* the number of distinct key values a random stream may produce
MaxWeight == 3
\* two interleaved calls: longest source, largest k, number of key values
ConcN == 2
ConcK == 2
ConcWeight == 2
\* the command line: the most arguments, the longest stdin
MaxArgs == 2
MaxLines == 3
\* test_distribution: the largest n
DistN == 4
\* a call that is followed to its end: longest source, largest k, number of
\* key values
FairN == 2
FairK == 2
FairWeight == 2

Calls == {1, 2}
Items == {0, 1}

\* an endless source is cut off after this many items
MaxPull == MaxN + 1

----------------------------------------------------------------------------
(* Helpers *)

RECURSIVE SeqsOfLen(_, _)
SeqsOfLen(S, n) ==
    IF n = 0 THEN {<<>>}
    ELSE {Append(s, x) : s \in SeqsOfLen(S, n - 1), x \in S}

SeqsUpTo(S, n) == UNION {SeqsOfLen(S, m) : m \in 0..n}

Min(a, b) == IF a <= b THEN a ELSE b

\* how often x occurs in the sequence s
Count(s, x) == Cardinality({i \in DOMAIN s : s[i] = x})

\* the orders in which into_vec() may hand out the entries of a heap
Orders(es) ==
    {s \in SeqsOfLen(es, Cardinality(es)) : \A e \in es : \E i \in DOMAIN s : s[i] = e}

----------------------------------------------------------------------------
(* WeightedItem and the heap *)

WeightedItem(p, it, w) == [at |-> p, item |-> it, weight |-> w]

\* the order reversed, which makes the heap a min-heap
LeReversed(e, f) == e.weight >= f.weight

\* Ord for WeightedItem: by weight alone
Le(e, f) == e.weight <= f.weight

\* the entries peek() and pop() may hand out: a greatest one
Greatest(h) == {e \in h : \A f \in h : Le(f, e)}

\* reservoir.peek().unwrap().weight
PeekWeight(h) == (CHOOSE e \in Greatest(h) : TRUE).weight

\* a heap that keeps one entry per key, as a set ordered by weight would
PushOnePerKey(h, e) == IF \E f \in h : f.weight = e.weight THEN h ELSE h \cup {e}

\* a push() that loses the entry
PushDrops(h, e) == h

\* reservoir.push(e)
Push(h, e) == h \cup {e}

\* a pop() that leaves the entry in the heap
PopKeeps(h, e) == h

\* reservoir.pop(), e being the greatest entry it hands out
Pop(h, e) == h \ {e}

----------------------------------------------------------------------------
(* The source iterator and the random stream of a call *)

\* a source that signals its end one item early
HasNextEndsEarly(c) == endless[c] \/ consumed[c] + 1 < Len(items[c])

\* items.next() has something to say other than None
HasNext(c) == endless[c] \/ consumed[c] < Len(items[c])

\* an iterator that is rewound before each next()
NextItemRewound(c) == items[c][1]

\* the item next() is about to yield
NextItem(c) == items[c][(consumed[c] % Len(items[c])) + 1]

\* reading the next item fails
NextFails(c) == HasNext(c) /\ (consumed[c] + 1) \in io_err[c]

\* a source whose failed reads are passed over in silence
YieldsLossy(c) ==
    /\ HasNext(c)
    /\ consumed[c] < MaxPull

\* items.next() returns Some(this_item)
Yields(c) ==
    /\ HasNext(c)
    /\ ~NextFails(c)
    /\ consumed[c] < MaxPull

\* a generator that is seeded anew for every draw: the same key each time
pick_weight_reseeded(c) == rng[c][1]

\* one process-global random stream that all the calls draw from
pick_weight_global(c) == (rng[1] \o rng[2])[draws[1] + draws[2] + 1]

\* pick_weight(): the next draw of the call's random stream
pick_weight(c) == rng[c][draws[c] + 1]

----------------------------------------------------------------------------
(* reservoir_sample, one step per loop iteration *)

\* the Vec<T> a heap is turned into, with the entry each item came from
Returned(c, ord) ==
    /\ sample' = [sample EXCEPT ![c] = [i \in DOMAIN ord |-> ord[i].item]]
    /\ origin' = [origin EXCEPT ![c] = ord]
    /\ pc' = [pc EXCEPT ![c] = "done"]

\* reservoir_sample without its k == 0 guard
CheckKUnguarded(c) ==
    /\ pc[c] = "start"
    /\ reservoir' = [reservoir EXCEPT ![c] = {}]
    /\ pc' = [pc EXCEPT ![c] = "fill"]
    /\ UNCHANGED <<k, items, endless, io_err, rng, consumed, draws, max_weight,
                   sample, origin>>
    /\ UNCHANGED <<mainVars, testVars>>

\* if k == 0 { return vec![] }; otherwise create an empty reservoir
CheckK(c) ==
    /\ pc[c] = "start"
    /\ IF k[c] = 0
       THEN /\ Returned(c, <<>>)
            /\ UNCHANGED reservoir
       ELSE /\ reservoir' = [reservoir EXCEPT ![c] = {}]
            /\ pc' = [pc EXCEPT ![c] = "fill"]
            /\ UNCHANGED <<sample, origin>>
    /\ UNCHANGED <<k, items, endless, io_err, rng, consumed, draws, max_weight>>
    /\ UNCHANGED <<mainVars, testVars>>

\* for _ in 1..=k: items.next() is Some(this_item): push it with a fresh weight
FillPush(c) ==
    /\ pc[c] = "fill"
    /\ consumed[c] < k[c]
    /\ Yields(c)
    /\ LET this_item == NextItem(c)
           this_weight == pick_weight(c)
       IN  reservoir' = [reservoir EXCEPT ![c] =
               Push(@, WeightedItem(consumed[c] + 1, this_item, this_weight))]
    /\ consumed' = [consumed EXCEPT ![c] = @ + 1]
    /\ draws' = [draws EXCEPT ![c] = @ + 1]
    /\ UNCHANGED <<k, items, endless, io_err, rng, pc, max_weight, sample, origin>>
    /\ UNCHANGED <<mainVars, testVars>>

\* for _ in 1..=k: items.next() is None: return what the reservoir holds
FillExhausted(c) ==
    /\ pc[c] = "fill"
    /\ consumed[c] < k[c]
    /\ ~HasNext(c)
    /\ \E ord \in Orders(reservoir[c]) : Returned(c, ord)
    /\ UNCHANGED <<k, items, endless, io_err, rng, consumed, draws, reservoir,
                   max_weight>>
    /\ UNCHANGED <<mainVars, testVars>>

\* the fill loop is over: let mut max_weight = reservoir.peek().unwrap().weight
\* (unwrap() panics on an empty heap)
FillDone(c) ==
    /\ pc[c] = "fill"
    /\ consumed[c] >= k[c]
    /\ IF reservoir[c] = {}
       THEN /\ pc' = [pc EXCEPT ![c] = "panic"]
            /\ UNCHANGED max_weight
       ELSE /\ max_weight' = [max_weight EXCEPT ![c] = PeekWeight(reservoir[c])]
            /\ pc' = [pc EXCEPT ![c] = "repl"]
    /\ UNCHANGED <<k, items, endless, io_err, rng, consumed, draws, reservoir,
                   sample, origin>>
    /\ UNCHANGED <<mainVars, testVars>>

\* the comparison the wrong way round
SkipsInverted(this_weight, max) == this_weight < max

\* an item whose key equals max_weight is passed over as well
SkipsOrEqual(this_weight, max) == this_weight >= max

\* if this_weight > max_weight { continue }
Skips(this_weight, max) == this_weight > max

\* for this_item in items: the weight drawn is greater than max_weight: continue
Discard(c) ==
    /\ pc[c] = "repl"
    /\ Yields(c)
    /\ Skips(pick_weight(c), max_weight[c])
    /\ consumed' = [consumed EXCEPT ![c] = @ + 1]
    /\ draws' = [draws EXCEPT ![c] = @ + 1]
    /\ UNCHANGED <<k, items, endless, io_err, rng, pc, reservoir, max_weight,
                   sample, origin>>
    /\ UNCHANGED <<mainVars, testVars>>

\* a max_weight that is left as it was after a replacement
StaleMax(old, h) == old

\* max_weight = reservoir.peek().unwrap().weight, after a replacement
\* (old is the max_weight so far)
NewMax(old, h) == PeekWeight(h)

\* for this_item in items: otherwise pop the greatest entry
\* (assert!(reservoir.pop().is_some())), push this item, and recalculate
\* max_weight
Replace(c) ==
    /\ pc[c] = "repl"
    /\ Yields(c)
    /\ ~Skips(pick_weight(c), max_weight[c])
    /\ IF reservoir[c] = {}
       THEN /\ pc' = [pc EXCEPT ![c] = "panic"]
            /\ UNCHANGED <<reservoir, max_weight>>
       ELSE /\ \E popped \in Greatest(reservoir[c]) :
                 LET this_item == NextItem(c)
                     this_weight == pick_weight(c)
                     pushed == Push(Pop(reservoir[c], popped),
                                    WeightedItem(consumed[c] + 1, this_item,
                                                 this_weight))
                 IN  /\ reservoir' = [reservoir EXCEPT ![c] = pushed]
                     /\ max_weight' = [max_weight EXCEPT ![c] = NewMax(@, pushed)]
            /\ UNCHANGED pc
    /\ consumed' = [consumed EXCEPT ![c] = @ + 1]
    /\ draws' = [draws EXCEPT ![c] = @ + 1]
    /\ UNCHANGED <<k, items, endless, io_err, rng, sample, origin>>
    /\ UNCHANGED <<mainVars, testVars>>

\* the source is exhausted: the sample is what the reservoir holds
\* (assert!(sample.len() == k))
Finish(c) ==
    /\ pc[c] = "repl"
    /\ ~HasNext(c)
    /\ \E ord \in Orders(reservoir[c]) :
         IF Len(ord) = k[c]
         THEN Returned(c, ord)
         ELSE /\ pc' = [pc EXCEPT ![c] = "panic"]
              /\ UNCHANGED <<sample, origin>>
    /\ UNCHANGED <<k, items, endless, io_err, rng, consumed, draws, reservoir,
                   max_weight>>
    /\ UNCHANGED <<mainVars, testVars>>

Step(c) ==
    \/ CheckK(c)
    \/ FillPush(c)
    \/ FillExhausted(c)
    \/ FillDone(c)
    \/ Discard(c)
    \/ Replace(c)
    \/ Finish(c)

----------------------------------------------------------------------------
(* A call of reservoir_sample on its own *)

\* the random streams a call may be given: one key per item it can pull
Streams(n, w) == SeqsOfLen(0..(w - 1), n)

\* what a call is given: the arguments, the source and the random stream
Given(kk, its, inf, errs, keys, at) ==
    [k |-> kk, items |-> its, endless |-> inf, io_err |-> errs, rng |-> keys,
     pc |-> at]

\* a call that is not made
Unused == Given(0, <<>>, FALSE, {}, <<>>, "idle")

\* the state before the calls begin
Fresh(g) ==
    /\ k = [c \in Calls |-> g[c].k]
    /\ items = [c \in Calls |-> g[c].items]
    /\ endless = [c \in Calls |-> g[c].endless]
    /\ io_err = [c \in Calls |-> g[c].io_err]
    /\ rng = [c \in Calls |-> g[c].rng]
    /\ pc = [c \in Calls |-> g[c].pc]
    /\ consumed = [c \in Calls |-> 0]
    /\ draws = [c \in Calls |-> 0]
    /\ reservoir = [c \in Calls |-> {}]
    /\ max_weight = [c \in Calls |-> 0]
    /\ sample = [c \in Calls |-> <<>>]
    /\ origin = [c \in Calls |-> <<>>]

NoMain ==
    /\ args = <<>>
    /\ main_pc = "off"
    /\ stdout = <<>>
    /\ stderr = <<>>
    /\ exit_code = -1

NoTest ==
    /\ remaining = {}
    /\ counts = <<>>
    /\ iterations = 0

----------------------------------------------------------------------------
(* One call, as the tests of reservoir_sample make it *)

\* the cycles an endless source repeats
Cycles == {<<0>>, <<1>>, <<0, 1>>}

\* the calls the tests make: finite sources, and endless ones that repeat a
\* cycle; one key of the stream per item the call can pull
Init ==
    /\ \E kk \in 0..MaxK :
          \/ \E its \in SeqsUpTo(Items, MaxN) :
                \E keys \in Streams(Len(its), MaxWeight) :
                   Fresh(<<Given(kk, its, FALSE, {}, keys, "start"), Unused>>)
          \/ \E its \in Cycles :
                \E keys \in Streams(MaxPull, MaxWeight) :
                   Fresh(<<Given(kk, its, TRUE, {}, keys, "start"), Unused>>)
    /\ NoMain
    /\ NoTest

Next == \E c \in Calls : Step(c)

Spec == Init /\ [][Next]_vars

\* the calls that are followed to their end
InitFair ==
    /\ \E kk \in 0..FairK :
          \/ \E its \in SeqsUpTo(Items, FairN) :
                \E keys \in Streams(Len(its), FairWeight) :
                   Fresh(<<Given(kk, its, FALSE, {}, keys, "start"), Unused>>)
          \/ \E its \in Cycles :
                \E keys \in Streams(MaxPull, FairWeight) :
                   Fresh(<<Given(kk, its, TRUE, {}, keys, "start"), Unused>>)
    /\ NoMain
    /\ NoTest

\* the call runs on one thread and never suspends: while it has a step to
\* take, it takes it
SpecFair == InitFair /\ [][Next]_vars /\ WF_vars(Next)

----------------------------------------------------------------------------
(* Two calls, their steps interleaved, each with its own source and its own
   random stream *)

\* the source of call c: n items that only call c is given
SourceOf(c, n) == [i \in 1..n |-> c - 1]

InitConc ==
    /\ \E k1 \in 1..ConcK, k2 \in 1..ConcK, n1 \in 0..ConcN, n2 \in 0..ConcN :
          \E keys1 \in Streams(n1, ConcWeight), keys2 \in Streams(n2, ConcWeight) :
             Fresh(<<Given(k1, SourceOf(1, n1), FALSE, {}, keys1, "start"),
                     Given(k2, SourceOf(2, n2), FALSE, {}, keys2, "start")>>)
    /\ NoMain
    /\ NoTest

SpecConc == InitConc /\ [][Next]_vars

----------------------------------------------------------------------------
(* main: the command line, which runs call 1 on the lines of stdin *)

Ok(n) == [ok |-> TRUE, val |-> n]
Err == [ok |-> FALSE, val |-> 0]

IsDigit(ch) == ch \in {"0", "1", "2", "3", "4", "5", "6", "7", "8", "9"}

DigitValue(ch) ==
    CASE ch = "0" -> 0 [] ch = "1" -> 1 [] ch = "2" -> 2 [] ch = "3" -> 3
      [] ch = "4" -> 4 [] ch = "5" -> 5 [] ch = "6" -> 6 [] ch = "7" -> 7
      [] ch = "8" -> 8 [] ch = "9" -> 9

RECURSIVE ParseDigits(_, _)
ParseDigits(s, acc) ==
    IF s = <<>> THEN Ok(acc)
    ELSE IF ~IsDigit(Head(s)) THEN Err
    ELSE ParseDigits(Tail(s), acc * 10 + DigitValue(Head(s)))

\* str::parse::<usize>(): a string is a sequence of characters.  An empty
\* string, a lone sign, a "-" and any character that is no digit are errors;
\* one leading "+" is accepted.  (The strings of the model are too short to
\* overflow a usize.)
ParseUsize(s) ==
    IF s = <<>> THEN Err
    ELSE IF Len(s) = 1 /\ s[1] \in {"+", "-"} THEN Err
    ELSE IF s[1] = "+" THEN ParseDigits(Tail(s), 0)
    ELSE ParseDigits(s, 0)

\* a guard that lets k = 0 through
KOkZero(parsed_k) == parsed_k >= 0

\* Ok(parsed_k) if parsed_k > 0
KOk(parsed_k) == parsed_k > 0

\* let k = match args.len() { ... }: std::env::args() counts the program name
ParseArgs(a) ==
    CASE Len(a) + 1 = 1 -> Ok(1)
      [] Len(a) + 1 = 2 ->
           LET r == ParseUsize(a[1])
           IN  IF r.ok /\ KOk(r.val) THEN Ok(r.val) ELSE Err
      [] OTHER -> Err

Usage == "Usage: randline [k]"
Unable == "Unable to read from stdin"

\* the arguments tried: 0, 1, 2, -1, +2, X, the empty string, 1X, 02, +, 10
ArgStrings ==
    {<<"0">>, <<"1">>, <<"2">>, <<"-", "1">>, <<"+", "2">>, <<"X">>, <<>>,
     <<"1", "X">>, <<"0", "2">>, <<"+">>, <<"1", "0">>}

\* the arguments do not give a k: usage on stderr, exit code 1
MainUsage ==
    /\ main_pc = "start"
    /\ ~ParseArgs(args).ok
    /\ stderr' = Append(stderr, Usage)
    /\ exit_code' = 1
    /\ main_pc' = "exited"
    /\ UNCHANGED <<args, stdout>>
    /\ UNCHANGED <<callVars, testVars>>

\* the arguments give k: lock stdin and call reservoir_sample(lines, k).
\* What stdin holds is the environment's: some lines, of which one may fail
\* to be read; the call's random stream has one key per line
MainSample ==
    /\ main_pc = "start"
    /\ ParseArgs(args).ok
    /\ \E n \in 0..MaxLines :
          \E errs \in {{}} \cup {{i} : i \in 1..n}, keys \in Streams(n, MaxWeight) :
             /\ k' = [k EXCEPT ![1] = ParseArgs(args).val]
             /\ items' = [items EXCEPT ![1] = [i \in 1..n |-> 0]]
             /\ io_err' = [io_err EXCEPT ![1] = errs]
             /\ rng' = [rng EXCEPT ![1] = keys]
    /\ pc' = [pc EXCEPT ![1] = "start"]
    /\ main_pc' = "sampling"
    /\ UNCHANGED <<endless, consumed, draws, reservoir, max_weight, sample, origin>>
    /\ UNCHANGED <<args, stdout, stderr, exit_code>>
    /\ UNCHANGED testVars

\* the closure of lines: Err(e) => eprintln!(..); std::process::exit(1)
ReadFail(c) ==
    /\ pc[c] = "repl" \/ (pc[c] = "fill" /\ consumed[c] < k[c])
    /\ NextFails(c)
    /\ pc' = [pc EXCEPT ![c] = "exit"]
    /\ stderr' = Append(stderr, Unable)
    /\ exit_code' = 1
    /\ main_pc' = "exited"
    /\ UNCHANGED <<k, items, endless, io_err, rng, consumed, draws, reservoir,
                   max_weight, sample, origin>>
    /\ UNCHANGED <<args, stdout>>
    /\ UNCHANGED testVars

\* for line in sample { println!("{}", line) }, and main returns
MainPrint ==
    /\ main_pc = "sampling"
    /\ pc[1] = "done"
    /\ stdout' = stdout \o sample[1]
    /\ exit_code' = 0
    /\ main_pc' = "exited"
    /\ UNCHANGED <<args, stderr>>
    /\ UNCHANGED <<callVars, testVars>>

InitCli ==
    /\ Fresh(<<Unused, Unused>>)
    /\ args \in SeqsUpTo(ArgStrings, MaxArgs)
    /\ main_pc = "start"
    /\ stdout = <<>>
    /\ stderr = <<>>
    /\ exit_code = -1
    /\ NoTest

NextCli ==
    \/ MainUsage
    \/ MainSample
    \/ Step(1)
    \/ ReadFail(1)
    \/ MainPrint

SpecCli == InitCli /\ [][NextCli]_vars

----------------------------------------------------------------------------
(* test_distribution: many samples of the integers 0..n, counting how often
   each is picked.  The model runs one trial for every order the n keys of a
   trial can be in, each order once. *)

\* the orders of n distinct keys
KeyOrders(n) ==
    {s \in SeqsOfLen(0..(n - 1), n) : \A i, j \in 1..n : i # j => s[i] # s[j]}

InitTest ==
    /\ \E n \in 1..DistN, kk \in 1..(DistN + 1) :
          LET first == CHOOSE o \in KeyOrders(n) : TRUE
          IN  /\ kk <= n + 1
              /\ Fresh(<<Given(kk, [i \in 1..n |-> i - 1], FALSE, {}, first, "start"),
                         Unused>>)
              /\ remaining = KeyOrders(n) \ {first}
              /\ counts = [x \in 0..(n - 1) |-> 0]
    /\ iterations = 0
    /\ NoMain

\* for s in sample.into_iter() { *counts.entry(s).or_insert(0) += 1 }, and on
\* to the next iteration
TestRecord ==
    /\ main_pc = "off"
    /\ pc[1] = "done"
    /\ counts' = [x \in DOMAIN counts |-> counts[x] + Count(sample[1], x)]
    /\ iterations' = iterations + 1
    /\ IF remaining = {}
       THEN /\ pc' = [pc EXCEPT ![1] = "idle"]
            /\ UNCHANGED <<rng, remaining>>
       ELSE LET next == CHOOSE o \in remaining : TRUE
            IN  /\ pc' = [pc EXCEPT ![1] = "start"]
                /\ rng' = [rng EXCEPT ![1] = next]
                /\ remaining' = remaining \ {next}
    /\ consumed' = [consumed EXCEPT ![1] = 0]
    /\ draws' = [draws EXCEPT ![1] = 0]
    /\ reservoir' = [reservoir EXCEPT ![1] = {}]
    /\ max_weight' = [max_weight EXCEPT ![1] = 0]
    /\ sample' = [sample EXCEPT ![1] = <<>>]
    /\ origin' = [origin EXCEPT ![1] = <<>>]
    /\ UNCHANGED <<k, items, endless, io_err>>
    /\ UNCHANGED mainVars

NextTest ==
    \/ Step(1)
    \/ TestRecord

SpecTest == InitTest /\ [][NextTest]_vars

----------------------------------------------------------------------------
(* What the claims speak of *)

\* the number of items of a finite source
N(c) == Len(items[c])

\* the keys drawn so far, in the order drawn
Drawn(c) == SubSeq(rng[c], 1, draws[c])

\* how many of the keys of the sequence ws are at most v
AtMost(ws, v) == Cardinality({i \in DOMAIN ws : ws[i] <= v})

\* the keys the returned items were held with
SampleKeys(c) == [i \in DOMAIN origin[c] |-> origin[c][i].weight]

\* the source positions of a set of entries, of the returned items
Positions(h) == {e.at : e \in h}
SamplePositions(c) == {origin[c][i].at : i \in DOMAIN origin[c]}

\* the call has returned
Done(c) == pc[c] = "done"

----------------------------------------------------------------------------
(* C1: for every k and every finite source of N items, whatever keys are
   drawn, reservoir_sample returns (it does not panic) and what it returns
   has exactly min(k, N) items. *)
C1_SampleLength ==
    \A c \in Calls :
       ~endless[c] =>
          /\ pc[c] # "panic"
          /\ Done(c) => Len(sample[c]) = Min(k[c], N(c))

\* a call with k = 2 on three items, one of them replaced, has returned
C1_Witness ==
    /\ Done(1) /\ k[1] = 2 /\ N(1) = 3 /\ ~endless[1]
    /\ Len(sample[1]) = 2
    /\ 3 \in SamplePositions(1)

(* C2: for k >= 1 and a finite source of N <= k items, the returned items
   are, as a multiset, all the items of the source. *)
C2_CompleteSample ==
    \A c \in Calls :
       (Done(c) /\ ~endless[c] /\ k[c] >= 1 /\ N(c) <= k[c]) =>
          \A x \in Items : Count(sample[c], x) = Count(items[c], x)

\* N = k = 3 with a repeated item and a repeated key
C2_Witness ==
    /\ Done(1) /\ k[1] = 3 /\ ~endless[1]
    /\ items[1] = <<0, 1, 0>>
    /\ rng[1] = <<1, 1, 0>>

(* C4: with k = 0 the call returns at its first step with an empty sample,
   having pulled no item from the source, finite or endless, and drawn no
   key. *)
C4_ZeroK ==
    \A c \in Calls :
       (k[c] = 0 /\ pc[c] # "idle") =>
          /\ pc[c] \in {"start", "done"}
          /\ pc[c] = "start" => ENABLED CheckK(c)
          /\ consumed[c] = 0
          /\ draws[c] = 0
          /\ reservoir[c] = {}
          /\ sample[c] = <<>>

\* k = 0 on an endless source has returned
C4_Witness == Done(1) /\ k[1] = 0 /\ endless[1] /\ sample[1] = <<>>

(* C8: for a finite source of N items and 1 <= k <= N, ties included, the
   keys of the returned items are, as a multiset, the k smallest of the N
   keys drawn; when the N keys are pairwise distinct, the returned items are
   exactly those at the positions holding the k smallest keys. *)
C8_SmallestKeys ==
    \A c \in Calls :
       (Done(c) /\ ~endless[c] /\ k[c] >= 1 /\ k[c] <= N(c)) =>
          /\ draws[c] = N(c)
          /\ \A v \in 0..MaxWeight :
                AtMost(SampleKeys(c), v) = Min(k[c], AtMost(Drawn(c), v))
          /\ (\A i, j \in 1..N(c) : i # j => rng[c][i] # rng[c][j]) =>
                SamplePositions(c) =
                   {p \in 1..N(c) :
                       Cardinality({q \in 1..N(c) : rng[c][q] < rng[c][p]}) < k[c]}

\* k = 1 on three items whose keys fall: the last item is the one returned
C8_Witness ==
    /\ Done(1) /\ k[1] = 1 /\ N(1) = 3 /\ ~endless[1]
    /\ rng[1] = <<2, 1, 0>>
    /\ SamplePositions(1) = {3}

(* C9: the reservoir never holds more than k entries; in the fill phase it
   holds as many entries as items were consumed; in the replacement phase it
   holds exactly k, and a replacement removes one entry and adds one. *)
C9_SizeInv ==
    \A c \in Calls :
       /\ Cardinality(reservoir[c]) <= k[c]
       /\ pc[c] = "fill" => Cardinality(reservoir[c]) = consumed[c]
       /\ pc[c] = "repl" => Cardinality(reservoir[c]) = k[c]
       /\ (Done(c) /\ consumed[c] >= k[c]) => Cardinality(reservoir[c]) = k[c]

C9_ReplaceStep ==
    \A c \in Calls :
       (pc[c] = "repl" /\ reservoir'[c] # reservoir[c]) =>
          /\ Cardinality(reservoir[c] \ reservoir'[c]) = 1
          /\ Cardinality(reservoir'[c] \ reservoir[c]) = 1

\* C9: the reservoir holds at most k entries, consumed-many in the fill
\* phase, exactly k in the replacement phase, one out and one in per replacement
C9_ReservoirSize == []C9_SizeInv /\ [][C9_ReplaceStep]_vars

\* in the replacement phase, an entry whose key equals max_weight was replaced
C9_Witness ==
    /\ pc[1] = "repl" /\ k[1] = 2
    /\ consumed[1] = 3
    /\ rng[1][3] = rng[1][1] /\ rng[1][2] < rng[1][1]
    /\ 3 \in Positions(reservoir[1])

(* C10: for a finite source, every entry of the reservoir and every returned
   item is the item of a source position already consumed, no position
   occurs twice in what is returned, and a position that has left the
   reservoir (discarded or evicted) never comes back. *)
C10_FromSource ==
    \A c \in Calls :
       ~endless[c] =>
          /\ \A e \in reservoir[c] :
                e.at \in 1..consumed[c] /\ e.item = items[c][e.at]
          /\ Done(c) =>
                /\ \A i \in DOMAIN sample[c] :
                      /\ origin[c][i].at \in 1..consumed[c]
                      /\ sample[c][i] = items[c][origin[c][i].at]
                /\ \A i, j \in DOMAIN sample[c] :
                      i # j => origin[c][i].at # origin[c][j].at
                /\ \A x \in Items : Count(sample[c], x) <= Count(items[c], x)

C10_NoReturn ==
    \A c \in Calls :
       \A p \in 1..consumed[c] :
          p \notin Positions(reservoir[c]) => p \notin Positions(reservoir'[c])

\* C10: what is returned are items of distinct consumed source positions,
\* and a position that left the reservoir never returns
C10_SubMultiset == []C10_FromSource /\ [][C10_NoReturn]_vars

\* a sample of two of the three items of a source with a repeated item,
\* the first item having been evicted
C10_Witness ==
    /\ Done(1) /\ k[1] = 2 /\ ~endless[1]
    /\ items[1] = <<0, 1, 0>>
    /\ SamplePositions(1) = {2, 3}

(* C3: for a source of N items and 1 <= k <= N, when every order of the N
   distinct keys is equally likely, each source position is in the sample
   with the same probability k/N: over one trial for each of the N! orders,
   every item is picked exactly k/N of the trials, whatever its position. *)
RECURSIVE Factorial(_)
Factorial(n) == IF n = 0 THEN 1 ELSE n * Factorial(n - 1)

TestOver == pc[1] = "idle" /\ remaining = {} /\ iterations > 0

ReadFailed == pc[1] = "exit"

\* the sampler is at a call of items.next()
AboutToRead == pc[1] = "repl" \/ (pc[1] = "fill" /\ consumed[1] < k[1])

\* C5: a failed read of stdin ends the process at once, nothing consumed
\* past it, nothing returned, nothing printed
C5_ReadFailureIsFatal ==
    /\ \A p \in io_err[1] :
          /\ consumed[1] < p
          /\ \A e \in reservoir[1] : e.at < p
          /\ ~Done(1)
          /\ stdout = <<>>
          /\ sample[1] = <<>>
    /\ (NextFails(1) /\ AboutToRead) =>
          /\ ENABLED ReadFail(1)
          /\ ~ENABLED Step(1)
    /\ ReadFailed =>
          /\ (consumed[1] + 1) \in io_err[1]
          /\ exit_code = 1
          /\ main_pc = "exited"
          /\ stderr = <<Unable>>
          /\ ~ENABLED NextCli

\* k = 1, the third line fails in the replacement phase: exit, nothing printed
C5_Witness ==
    /\ ReadFailed /\ k[1] = 1 /\ io_err[1] = {3}
    /\ consumed[1] = 2
    /\ Cardinality(reservoir[1]) = 1
    /\ stdout = <<>>

(* C6: two calls whose steps interleave do not interfere: a step that changes
   the reservoir of a call is a step of that call and leaves the other call
   as it is, and what a call returns is what the call returns when it runs
   alone on its source with the keys of its own stream. *)
RECURSIVE RunAlone(_, _, _, _, _)
RunAlone(kk, its, keys, i, h) ==
    IF i > Len(its) THEN {h}
    ELSE IF i <= kk
         THEN RunAlone(kk, its, keys, i + 1,
                       h \cup {WeightedItem(i, its[i], keys[i])})
    ELSE LET max == CHOOSE w \in {e.weight : e \in h} :
                       \A e \in h : e.weight <= w
         IN  IF keys[i] > max THEN RunAlone(kk, its, keys, i + 1, h)
             ELSE UNION {RunAlone(kk, its, keys, i + 1,
                                  (h \ {e}) \cup {WeightedItem(i, its[i], keys[i])})
                         : e \in {f \in h : f.weight = max}}

\* the reservoirs a call can end with when it runs alone
Alone(kk, its, keys) == IF kk = 0 THEN {{}} ELSE RunAlone(kk, its, keys, 1, {})

CallState(c) ==
    <<k[c], items[c], endless[c], io_err[c], rng[c], pc[c], consumed[c],
      draws[c], reservoir[c], max_weight[c], sample[c], origin[c]>>

C6_AsAlone ==
    \A c \in Calls :
       Done(c) =>
          /\ {origin[c][i] : i \in DOMAIN origin[c]} \in Alone(k[c], items[c], rng[c])
          /\ Len(origin[c]) = Min(k[c], N(c))
          /\ sample[c] = [i \in DOMAIN origin[c] |-> origin[c][i].item]

C6_OwnStep ==
    \A c \in Calls :
       reservoir'[c] # reservoir[c] =>
          /\ consumed'[c] = consumed[c] + 1
          /\ \A d \in Calls \ {c} : CallState(d)' = CallState(d)

\* C6: interleaved calls do not interfere, and each returns what it returns
\* when run alone
C6_Independent == []C6_AsAlone /\ [][C6_OwnStep]_vars

\* call 1 has returned its second item, which replaced the first, while
\* call 2, begun at the same time, is in its replacement phase and has
\* replaced an entry whose key equals the new one
C6_Witness ==
    /\ Done(1) /\ k[1] = 1 /\ rng[1] = <<1, 0>>
    /\ SamplePositions(1) = {2}
    /\ pc[2] = "repl" /\ k[2] = 1 /\ rng[2] = <<0, 0>>
    /\ Positions(reservoir[2]) = {2}

(* C7: with no argument main samples with k = 1; with one argument that
   parses as an integer > 0 it samples with that k; in every other case it
   exits with code 1 and the usage message on stderr, having consumed
   nothing of stdin, never called the sampler and printed nothing.  The
   sampler is never called with k = 0. *)
Sampling == main_pc = "sampling" \/ (main_pc = "exited" /\ pc[1] # "idle")

UsageExit ==
    /\ main_pc = "exited"
    /\ exit_code = 1
    /\ stderr = <<Usage>>
    /\ stdout = <<>>
    /\ pc[1] = "idle"
    /\ consumed[1] = 0
    /\ draws[1] = 0

\* C7: k = 1 without argument, the parsed k > 0 with one argument, usage and
\* exit code 1 otherwise; the sampler is never called with k = 0
C7_CommandLine ==
    /\ main_pc # "start" =>
          CASE Len(args) = 0 -> Sampling /\ k[1] = 1
            [] Len(args) = 1 /\ ParseUsize(args[1]).ok /\ ParseUsize(args[1]).val > 0 ->
                  Sampling /\ k[1] = ParseUsize(args[1]).val
            [] OTHER -> UsageExit
    /\ main_pc = "start" => pc[1] = "idle"
    /\ pc[1] # "idle" => k[1] >= 1
    /\ (main_pc # "start" /\ Len(args) = 1) =>
          /\ args[1] \in {<<"0">>, <<"-", "1">>, <<"X">>, <<>>, <<"1", "X">>, <<"+">>}
                => UsageExit
          /\ args[1] \in {<<"2">>, <<"+", "2">>, <<"0", "2">>}
                => Sampling /\ k[1] = 2
          /\ args[1] = <<"1", "0">> => Sampling /\ k[1] = 10

\* the argument 0: usage, exit code 1
C7_Witness == args = <<<<"0">>>> /\ UsageExit

\* a greatest key of the entries of h
MaxKey(h) == CHOOSE w \in {e.weight : e \in h} : \A e \in h : e.weight <= w

\* an item arrives in the replacement phase
Arrives(c) == pc[c] = "repl" /\ consumed'[c] = consumed[c] + 1

(* C11: in the replacement phase, an arriving item whose fresh key w is
   greater than max_weight is discarded, the reservoir and max_weight staying
   as they are; otherwise (w <= max_weight) exactly one entry holding the
   greatest key leaves, the item enters with key w, and every other entry
   stays as it is. *)
C11_ReplaceOrDiscard ==
    \A c \in Calls :
       Arrives(c) =>
          LET w == rng[c][draws[c] + 1]
              arrived == [at |-> consumed[c] + 1,
                          item |-> items[c][(consumed[c] % Len(items[c])) + 1],
                          weight |-> w]
          IN  /\ draws'[c] = draws[c] + 1
              /\ pc'[c] = "repl"
              /\ IF w > max_weight[c]
                 THEN /\ reservoir'[c] = reservoir[c]
                      /\ max_weight'[c] = max_weight[c]
                 ELSE /\ arrived \notin reservoir[c]
                      /\ \E e \in reservoir[c] :
                            /\ e.weight = MaxKey(reservoir[c])
                            /\ e.weight = max_weight[c]
                            /\ reservoir'[c] = (reservoir[c] \ {e}) \cup {arrived}

C11_Frame == [][C11_ReplaceOrDiscard]_vars

\* k = 1: the second item was discarded (key 2 > 1), the third has replaced
\* the first with a key equal to max_weight
C11_Witness ==
    /\ pc[1] = "repl" /\ k[1] = 1 /\ ~endless[1]
    /\ consumed[1] = 3
    /\ rng[1] = <<1, 2, 1>>
    /\ reservoir[1] = {[at |-> 3, item |-> items[1][3], weight |-> 1]}

(* C12: throughout the replacement phase, whenever the key of a new item is
   about to be compared, max_weight is the greatest key of the entries in the
   reservoir: it is recalculated after every replacement. *)
C12_MaxTracked ==
    \A c \in Calls :
       pc[c] = "repl" =>
          /\ reservoir[c] # {}
          /\ max_weight[c] = MaxKey(reservoir[c])

\* k = 2: the third item has replaced the entry of key 2, and max_weight
\* has come down to 1
C12_Witness ==
    /\ pc[1] = "repl" /\ k[1] = 2
    /\ consumed[1] = 3
    /\ rng[1] = <<2, 1, 0>>
    /\ Positions(reservoir[1]) = {2, 3}
    /\ max_weight[1] = 1

\* the phase of a call: Empty, Filling, Full, Replacing, or returned
Phase(c) ==
    CASE pc[c] = "start" -> "Empty"
      [] pc[c] = "fill" /\ reservoir[c] = {} -> "Empty"
      [] pc[c] = "fill" /\ Cardinality(reservoir[c]) \in 1..(k[c] - 1) -> "Filling"
      [] pc[c] = "fill" /\ Cardinality(reservoir[c]) >= k[c] -> "Full"
      [] pc[c] = "repl" -> "Replacing"
      [] pc[c] = "done" -> "Returned"
      [] OTHER -> "None"

Rank(ph) ==
    CASE ph = "Empty" -> 0
      [] ph = "Filling" -> 1
      [] ph = "Full" -> 2
      [] ph = "Replacing" -> 3
      [] ph = "Returned" -> 4
      [] OTHER -> -1

(* C13: a call with k >= 1 moves through Empty, Filling, Full, Replacing
   only forward; it enters the replacement phase only from Full, the
   reservoir holding k entries; it returns from the fill phase
   (PartialComplete) only when N < k, and from the replacement phase
   (SampleReady) only when N >= k. *)
C13_PhaseStep ==
    \A c \in Calls :
       (k[c] >= 1 /\ pc[c] # "idle") =>
          /\ Rank(Phase(c)') >= Rank(Phase(c))
          /\ pc'[c] \notin {"panic", "idle", "start"} \/ pc'[c] = pc[c]
          /\ (~endless[c] /\ N(c) < k[c]) => Phase(c) \notin {"Full", "Replacing"}
          /\ (pc'[c] = "repl" /\ pc[c] # "repl") =>
                /\ Phase(c) = "Full"
                /\ Cardinality(reservoir[c]) = k[c]
          /\ (pc'[c] = "done" /\ pc[c] # "done") =>
                /\ ~endless[c]
                /\ consumed[c] = N(c)
                /\ IF N(c) < k[c]
                   THEN Phase(c) \in {"Empty", "Filling"}
                   ELSE Phase(c) = "Replacing"

C13_Forward == [][C13_PhaseStep]_vars

\* k = 2 on three items: filled, the third item discarded, returned from
\* the replacement phase
C13_Witness ==
    /\ Done(1) /\ k[1] = 2 /\ N(1) = 3 /\ ~endless[1]
    /\ rng[1] = <<0, 1, 2>>
    /\ SamplePositions(1) = {1, 2}
    /\ max_weight[1] = 1

(* C14: for k >= 1 and a finite source of N items, the sampler pulls the
   items one at a time in arrival order, each once, until the source says it
   has no more, and draws one key per item as it pulls it (N draws in all);
   the key an entry of the reservoir was given never changes. *)
C14_OnePass ==
    \A c \in Calls :
       (k[c] >= 1 /\ ~endless[c]) =>
          /\ draws[c] = consumed[c]
          /\ consumed[c] <= N(c)
          /\ \A e \in reservoir[c] :
                e.item = items[c][e.at] /\ e.weight = rng[c][e.at]
          /\ Done(c) => consumed[c] = N(c) /\ draws[c] = N(c) /\ ~HasNext(c)

C14_KeysKept ==
    \A c \in Calls :
       /\ consumed'[c] \in {consumed[c], consumed[c] + 1}
       /\ draws'[c] - draws[c] = consumed'[c] - consumed[c]
       /\ \A e \in reservoir[c], f \in reservoir'[c] : e.at = f.at => e = f
       /\ \A f \in reservoir'[c] \ reservoir[c] : f.at = consumed[c] + 1

\* C14: one pass over the source in order, one key drawn per item pulled, N
\* draws in all, and no key of an entry ever changed
C14_OnceInOrder == []C14_OnePass /\ [][C14_KeysKept]_vars

\* k = 1 on three items of rising keys: all three pulled, three keys drawn,
\* the first item kept with the key it was given
C14_Witness ==
    /\ Done(1) /\ k[1] = 1 /\ N(1) = 3 /\ ~endless[1]
    /\ rng[1] = <<0, 1, 2>>
    /\ consumed[1] = 3 /\ draws[1] = 3
    /\ origin[1] = <<[at |-> 1, item |-> items[1][1], weight |-> 0]>>

\* the source of the call has yielded all it has
Exhausted(c) == ~endless[c] /\ consumed[c] = Len(items[c])

\* the call is at a call of items.next()
AtNext(c) == pc[c] = "repl" \/ (pc[c] = "fill" /\ consumed[c] < k[c])

C15_OnlyAtEnd ==
    \A c \in Calls :
       k[c] >= 1 =>
          /\ pc[c] # "panic"
          /\ Done(c) => Exhausted(c)
          /\ (AtNext(c) /\ Exhausted(c)) =>
                /\ ENABLED (FillExhausted(c) \/ Finish(c))
                /\ ~ENABLED (FillPush(c) \/ Discard(c) \/ Replace(c))
          /\ (AtNext(c) /\ ~Exhausted(c)) => ~ENABLED (FillExhausted(c) \/ Finish(c))

C15_Returns ==
    \A c \in Calls : (pc[c] = "start" /\ k[c] >= 1 /\ ~endless[c]) ~> Done(c)

(* C15: for k >= 1 the sampler returns exactly when the source signals its
   end: while the source has an item to yield the call does not return (and
   an endless source never lets it), at the end of the source its only step
   is to return, and on every finite source it does return in the end. *)
C15_StopsAtExhaustion == []C15_OnlyAtEnd /\ C15_Returns

\* k = 2 on an endless source, cut off in the replacement phase: no result
C15_Witness ==
    /\ pc[1] = "repl" /\ k[1] = 2 /\ endless[1]
    /\ consumed[1] = MaxPull
    /\ sample[1] = <<>>

(* C16: for k >= 1 no assert! and no unwrap() of reservoir_sample fails: the
   call never panics; the reservoir holds an entry when peek() is unwrapped
   at the end of the fill phase, and holds exactly k of them all through the
   replacement phase, so that pop() hands out an entry, the peek() after the
   push finds one, and the sample returned from that phase has length k;
   every key drawn, held or kept as max_weight is a number, so that any two
   of them compare. *)
C16_NoPanic ==
    \A c \in Calls :
       k[c] >= 1 =>
          /\ pc[c] # "panic"
          /\ (pc[c] = "fill" /\ consumed[c] >= k[c]) => reservoir[c] # {}
          /\ pc[c] = "repl" =>
                /\ reservoir[c] # {}
                /\ Cardinality(reservoir[c]) = k[c]
                /\ Greatest(reservoir[c]) # {}
          /\ (Done(c) /\ consumed[c] >= k[c]) => Len(sample[c]) = k[c]
          /\ \A i \in DOMAIN rng[c] : rng[c][i] \in Nat
          /\ \A e \in reservoir[c] : e.weight \in Nat
          /\ max_weight[c] \in Nat

\* k = 1 on two items with equal keys: the second replaced the first (pop and
\* the peek after the push both found an entry) and the call returned
C16_Witness ==
    /\ Done(1) /\ k[1] = 1 /\ N(1) = 2 /\ ~endless[1]
    /\ rng[1] = <<0, 0>>
    /\ origin[1] = <<[at |-> 2, item |-> items[1][2], weight |-> 0]>>
    /\ max_weight[1] = 0

====
